---- MODULE Spec2Model ----
(***************************************************************************)
(* A model of box/box.py: the Box wrapper hierarchy (Box, SizedBox,        *)
(* SequenceBox, MappingBox, MutableMappingBox, MutableSetBox) over a heap  *)
(* of Python objects.                                                      *)
(*                                                                         *)
(* Python values are tagged records.  Scalars, strings and the containers  *)
(* the library builds inside a result (slices, chunk lists, zip pairs) are *)
(* carried by value; every container handed in by the caller or built by   *)
(* item_type(...) lives on the heap and is named by a reference, so that   *)
(* two boxes can wrap the same container.                                  *)
(***************************************************************************)
EXTENDS Integers, Sequences, FiniteSets, TLC

VARIABLES
    heap,   \* heap[a]: the object at address a
    boxes,  \* boxes[b]: the attributes of the b-th Box instance
    last,   \* the last call: its name, receiver, arguments and outcome
    steps   \* number of library calls made so far

vars == <<heap, boxes, last, steps>>

(***************************************************************************)
(* Bounds of the model.                                                    *)
(***************************************************************************)
MaxLen == 3
MaxVal == 1
MaxOps == 2
MaxChunk == 2
MaxPasses == 2

(***************************************************************************)
(* Python values.                                                          *)
(***************************************************************************)
None == [t |-> "none"]
IntV(n) == [t |-> "int", n |-> n]
Str(cs) == [t |-> "str", s |-> cs]
\* a mapping {"id": n} and an object with the single attribute id = n
Rec(n) == [t |-> "rec", id |-> n]
Obj(n) == [t |-> "obj", id |-> n]
Ref(a) == [t |-> "ref", a |-> a]
Val(kind, es) == [t |-> kind, es |-> es]
Ratio(p, q) == [t |-> "ratio", p |-> p, q |-> q]
BoxRef(b) == [t |-> "box", b |-> b]
Type(k) == [t |-> "type", k |-> k]
Bool(x) == [t |-> "bool", v |-> x]
Err(e) == [t |-> "err", e |-> e]

\* str(<generator object ...>): the text Python prints for a generator
GenRepr == Str(<<"<", "g", "e", "n", ">">>)

SeqsOf(S, n) == UNION {[1..k -> S] : k \in 0..n}
Distinct(s) == \A i, j \in 1..Len(s) : i # j => s[i] # s[j]
Take(s, k) == SubSeq(s, 1, IF k < Len(s) THEN k ELSE Len(s))
Drop(s, k) == SubSeq(s, (IF k < Len(s) THEN k ELSE Len(s)) + 1, Len(s))
Range(s) == {s[i] : i \in 1..Len(s)}

Deref(h, v) == IF v.t = "ref" THEN h[v.a] ELSE v
\* type(v)
Kind(h, v) == Deref(h, v).t

\* isinstance(v, abc.Sequence)
IsSequence(h, v) == Kind(h, v) \in {"list", "tuple", "str"}

\* the elements iter(o) yields for a re-iterable object o
Elems(o) ==
    IF o.t = "str" THEN [i \in 1..Len(o.s) |-> Str(<<o.s[i]>>)] ELSE o.es

Iterable(h, v) ==
    Kind(h, v) \in {"list", "tuple", "set", "dict", "str", "rec", "list_iterator", "generator"}
Reiterable(h, v) == Kind(h, v) \in {"list", "tuple", "set", "dict", "str"}

\* the value of x as == compares it: references followed, sets and mappings unordered
RECURSIVE Deep(_, _)
Deep(h, v) ==
    LET o == Deref(h, v) IN
    CASE o.t \in {"list", "tuple"} ->
            [t |-> o.t, es |-> [i \in 1..Len(o.es) |-> Deep(h, o.es[i])]]
      [] o.t = "set" -> [t |-> "set", m |-> {Deep(h, o.es[i]) : i \in 1..Len(o.es)}]
      [] o.t = "dict" ->
            [t |-> "dict", m |-> {<<Deep(h, o.es[i]), Deep(h, o.vs[i])>> : i \in 1..Len(o.es)}]
      [] OTHER -> v

PyEq(h, x, y) == Deep(h, x) = Deep(h, y)

\* x in <container o>, for a re-iterable o
Member(h, x, o) == \E i \in 1..Len(Elems(o)) : PyEq(h, Elems(o)[i], x)

RECURSIVE Hashable(_, _)
Hashable(h, v) ==
    LET o == Deref(h, v) IN
    CASE o.t \in {"none", "int", "str", "obj", "bool", "list_iterator", "generator"} -> TRUE
      [] o.t = "tuple" -> \A i \in 1..Len(o.es) : Hashable(h, o.es[i])
      [] OTHER -> FALSE

\* bool(v)
Truthy(h, v) ==
    LET o == Deref(h, v) IN
    CASE o.t = "none" -> FALSE
      [] o.t = "int" -> o.n # 0
      [] o.t = "bool" -> o.v
      [] o.t = "str" -> Len(o.s) > 0
      [] o.t \in {"list", "tuple", "set", "dict"} -> Len(o.es) > 0
      [] OTHER -> TRUE

\* first occurrences only, in order: the elements a set or the keys a dict keeps
RECURSIVE Dedupe(_, _, _)
Dedupe(h, ys, acc) ==
    IF ys = <<>> THEN acc
    ELSE Dedupe(h, Tail(ys),
                IF \E i \in 1..Len(acc) : PyEq(h, acc[i], Head(ys)) THEN acc
                ELSE Append(acc, Head(ys)))

(***************************************************************************)
(* Construction of containers: item_type(iterable), for the kinds the      *)
(* model holds.  The result is [err, v, h]: the exception raised (or ""),  *)
(* the value built, and the heap afterwards.                               *)
(***************************************************************************)
Alloc(h, o) == [err |-> "", v |-> Ref(Len(h) + 1), h |-> Append(h, o)]
Raise(h, e) == [err |-> e, v |-> None, h |-> h]

\* dict(ys): every element must itself be a two-element iterable with a hashable first
PairLike(h, y) == Reiterable(h, y) /\ Kind(h, y) # "dict" /\ Len(Elems(Deref(h, y))) = 2
DictErr(h, ys) ==
    IF \E i \in 1..Len(ys) :
          /\ \A j \in 1..(i - 1) : PairLike(h, ys[j]) /\ Hashable(h, Elems(Deref(h, ys[j]))[1])
          /\ ~Iterable(h, ys[i]) \/ (PairLike(h, ys[i]) /\ ~Hashable(h, Elems(Deref(h, ys[i]))[1]))
    THEN "TypeError"
    ELSE IF \E i \in 1..Len(ys) : ~PairLike(h, ys[i]) THEN "ValueError" ELSE ""

\* the keys dict(ys) keeps, and for each the value of its last occurrence
DictOf(h, ys) ==
    LET ks == Dedupe(h, [i \in 1..Len(ys) |-> Elems(Deref(h, ys[i]))[1]], <<>>)
        lastOf(k) == CHOOSE i \in 1..Len(ys) :
                        /\ PyEq(h, Elems(Deref(h, ys[i]))[1], k)
                        /\ \A j \in (i + 1)..Len(ys) : ~PyEq(h, Elems(Deref(h, ys[j]))[1], k)
    IN [t |-> "dict", es |-> ks,
        vs |-> [i \in 1..Len(ks) |-> Elems(Deref(h, ys[lastOf(ks[i])]))[2]]]

\* kind(ys) once ys has been drawn from the iterable, for the kinds that draw from it
Construct(h, kind, ys) ==
    CASE kind \in {"list", "tuple"} -> Alloc(h, Val(kind, ys))
      [] kind = "set" ->
            IF \A i \in 1..Len(ys) : Hashable(h, ys[i])
            THEN Alloc(h, Val("set", Dedupe(h, ys, <<>>)))
            ELSE Raise(h, "TypeError")
      [] kind = "dict" ->
            IF DictErr(h, ys) # "" THEN Raise(h, DictErr(h, ys)) ELSE Alloc(h, DictOf(h, ys))
      [] OTHER -> Raise(h, "TypeError")

\* the kinds item_type(iterable) draws the iterable's elements for
Draws(kind) == kind \in {"list", "tuple", "set", "dict"}

(***************************************************************************)
(* Box instances.  _items is what Box.__init__ stores; items is what       *)
(* SequenceBox.__init__ stores (absent on the other classes).              *)
(***************************************************************************)
Classes == {"Box", "SizedBox", "SequenceBox", "MappingBox", "MutableMappingBox", "MutableSetBox"}
Absent == [t |-> "absent"]

Box__init__(items) == [_items |-> items, items |-> Absent]

\* [box, h]: the instance and the heap after SequenceBox(items)
SequenceBox__init__(h, items) ==
    IF IsSequence(h, items)
    THEN [box |-> [Box__init__(items) EXCEPT !.items = items], h |-> h]
    ELSE [box |-> [Box__init__(items) EXCEPT !.items = Ref(Len(h) + 1)],
          h |-> Append(h, Val("list", <<items>>))]

\* type(self)(items) for class cls: [b, h, bs], the new instance's index and the state
Instantiate(h, bs, cls, items) ==
    LET r == IF cls = "SequenceBox" THEN SequenceBox__init__(h, items)
             ELSE [box |-> Box__init__(items), h |-> h]
    IN [b |-> Len(bs) + 1, h |-> r.h,
        bs |-> Append(bs, [cls |-> cls, _items |-> r.box._items, items |-> r.box.items])]

item_type(h, box) == Kind(h, box._items)

\* SizedBox.__len__: [err, n]
SizedBox__len__(h, box) ==
    IF box.cls = "Box" THEN [err |-> "TypeError", n |-> 0]
    ELSE IF Reiterable(h, box._items)
         THEN [err |-> "", n |-> Len(Elems(Deref(h, box._items)))]
         ELSE [err |-> "TypeError", n |-> 0]

\* Box.__bool__
Box__bool__(h, box) == Truthy(h, box._items)

(***************************************************************************)
(* Iteration.  A pass is [ys, err, h]: the elements yielded, the exception *)
(* that ended it (or ""), and the heap afterwards.  all = TRUE runs the    *)
(* pass to exhaustion; otherwise at most k elements are drawn and the      *)
(* iterator is dropped.                                                    *)
(***************************************************************************)
Cut(ys, k, all) == IF all THEN ys ELSE Take(ys, k)

\* the generator inside Box.chunk run over the elements xs: the yielded chunks, as the
\* consumer sees them once the pass is over (every yield hands out the same list)
RECURSIVE Box_chunk_generator(_, _, _, _)
Box_chunk_generator(xs, chunk_size, chunk, yields) ==
    IF xs = <<>> THEN [i \in 1..yields |-> Val("list", chunk)]
    ELSE LET c2 == Append(chunk, Head(xs))
         IN Box_chunk_generator(Tail(xs), chunk_size, c2,
                                IF Len(c2) = chunk_size THEN yields + 1 ELSE yields)

RECURSIVE Box__iter__(_, _, _, _, _)
RECURSIVE IterValue(_, _, _, _, _)

\* iter(v) for a value v
IterValue(h, bs, v, k, all) ==
    LET o == Deref(h, v) IN
    CASE o.t \in {"list", "tuple", "set", "dict", "str"} ->
            [ys |-> Cut(Elems(o), k, all), err |-> "", h |-> h]
      [] o.t = "rec" -> [ys |-> Cut(<<Str(<<"id">>)>>, k, all), err |-> "", h |-> h]
      [] o.t = "list_iterator" ->
            [ys |-> Cut(o.es, k, all), err |-> "",
             h |-> [h EXCEPT ![v.a].es = IF all THEN <<>> ELSE Drop(o.es, k)]]
      [] o.t = "generator" ->
            IF o.done \/ (~all /\ k = 0) THEN [ys |-> <<>>, err |-> "", h |-> h]
            ELSE LET one == ~all /\ k = 1
                     sp == Box__iter__(h, bs, o.src, o.chunk_size, ~one)
                     h2 == [sp.h EXCEPT ![v.a].done = TRUE]
                 IN IF sp.err # "" THEN [ys |-> <<>>, err |-> sp.err, h |-> h2]
                    ELSE [ys |-> Cut(Box_chunk_generator(sp.ys, o.chunk_size, <<>>, 0), k, all),
                          err |-> "", h |-> h2]
      [] OTHER -> [ys |-> <<>>, err |-> "TypeError", h |-> h]

\* iter(self): Box.__iter__, and on a SequenceBox abc.Sequence.__iter__, which precedes
\* Box in the method resolution order and indexes self.items through __getitem__
Box__iter__(h, bs, b, k, all) ==
    IF bs[b].cls = "SequenceBox"
    THEN [ys |-> Cut(Elems(Deref(h, bs[b].items)), k, all), err |-> "", h |-> h]
    ELSE IterValue(h, bs, bs[b]._items, k, all)

\* iter(other) for an argument: a Box or a raw iterable
IterArg(h, bs, other, k, all) ==
    IF other.t = "box" THEN Box__iter__(h, bs, other.b, k, all)
    ELSE IterValue(h, bs, other, k, all)

\* x in v for a raw value v: [err, v, h]
RawContains(h, bs, x, v) ==
    LET o == Deref(h, v) IN
    CASE o.t \in {"list", "tuple"} -> [err |-> "", v |-> Member(h, x, o), h |-> h]
      [] o.t \in {"set", "dict"} ->
            IF Hashable(h, x) THEN [err |-> "", v |-> Member(h, x, o), h |-> h]
            ELSE [err |-> "TypeError", v |-> FALSE, h |-> h]
      [] o.t = "str" ->
            IF Kind(h, x) # "str" THEN [err |-> "TypeError", v |-> FALSE, h |-> h]
            ELSE [err |-> "", h |-> h,
                  v |-> \E i \in 0..Len(o.s) : SubSeq(o.s, i + 1, i + Len(x.s)) = x.s]
      [] o.t = "list_iterator" ->
            \* the scan stops behind the first equal element, or at the end
            LET hit == {i \in 1..Len(o.es) : PyEq(h, o.es[i], x)}
                at == IF hit = {} THEN Len(o.es) ELSE CHOOSE i \in hit : \A j \in hit : i <= j
            IN [err |-> "", v |-> hit # {}, h |-> [h EXCEPT ![v.a].es = Drop(o.es, at)]]
      [] o.t = "generator" ->
            LET p == IterValue(h, bs, v, 0, TRUE)
            IN [err |-> p.err, h |-> p.h,
                v |-> p.err = "" /\ \E i \in 1..Len(p.ys) : PyEq(h, p.ys[i], x)]
      [] OTHER -> [err |-> "TypeError", v |-> FALSE, h |-> h]

\* x in self: Box.__contains__; on a SequenceBox abc.Sequence.__contains__ (a scan of
\* iter(self)); on a MappingBox abc.Mapping.__contains__ (self[x], KeyError caught)
Box__contains__(h, bs, b, x) ==
    IF bs[b].cls = "SequenceBox"
    THEN [err |-> "", v |-> Member(h, x, Deref(h, bs[b].items)), h |-> h]
    ELSE IF bs[b].cls \in {"MappingBox", "MutableMappingBox"} /\ Kind(h, bs[b]._items) # "dict"
    THEN [err |-> "TypeError", v |-> FALSE, h |-> h]
    ELSE RawContains(h, bs, x, bs[b]._items)

\* x in other for an argument
ContainsArg(h, bs, x, other) ==
    IF other.t = "box" THEN Box__contains__(h, bs, other.b, x)
    ELSE RawContains(h, bs, x, other)

(***************************************************************************)
(* The caller's callbacks, a small family of total functions.              *)
(***************************************************************************)
MapCallbacks == {"identity", "succ", "pair"}
FilterCallbacks == {"positive"}
ReduceCallbacks == {"add", "last", "none"}

\* callback(value) for map
Apply1(cb, x) ==
    CASE cb = "identity" -> x
      [] cb = "succ" -> IF x.t = "int" THEN IntV(x.n + 1) ELSE x
      [] cb = "pair" -> Val("tuple", <<x, x>>)

\* callback(value) for filter; None stands for the default, bool
Test1(h, cb, x) ==
    IF cb = "None" THEN Truthy(h, x) ELSE x.t = "int" /\ x.n > 0

\* x + y: [err, v]
Add(h, x, y) ==
    LET a == Deref(h, x)
        c == Deref(h, y)
    IN CASE a.t = "int" /\ c.t = "int" -> [err |-> "", v |-> IntV(a.n + c.n)]
         [] a.t = "str" /\ c.t = "str" -> [err |-> "", v |-> Str(a.s \o c.s)]
         [] a.t = c.t /\ a.t \in {"list", "tuple"} -> [err |-> "", v |-> Val(a.t, a.es \o c.es)]
         [] OTHER -> [err |-> "TypeError", v |-> None]

\* callback(result, value) for reduce: [err, v]
Apply2(h, cb, x, y) ==
    CASE cb = "add" -> Add(h, x, y)
      [] cb = "last" -> [err |-> "", v |-> y]
      [] cb = "none" -> [err |-> "", v |-> None]

(***************************************************************************)
(* Box._where                                                              *)
(***************************************************************************)
_OPERATOR_MAPPING == {"=", "==", "!=", "<>", "<=", ">=", "<", ">"}
Keys == {"id", "zz"}

\* _OPERATOR_MAPPING[operation](obj, value): [err, v]
Compare(h, operation, x, y) ==
    IF operation \in {"=", "=="} THEN [err |-> "", v |-> PyEq(h, x, y)]
    ELSE IF operation \in {"!=", "<>"} THEN [err |-> "", v |-> ~PyEq(h, x, y)]
    ELSE IF x.t # "int" \/ y.t # "int" THEN [err |-> "TypeError", v |-> FALSE]
    ELSE [err |-> "",
          v |-> CASE operation = "<=" -> x.n <= y.n
                  [] operation = ">=" -> x.n >= y.n
                  [] operation = "<" -> x.n < y.n
                  [] operation = ">" -> x.n > y.n]

\* [err, v]; operation "None" stands for no operator
\* a variant of _where that compares by equality under an operator it does not know
_where_unchecked(h, obj, key, operation, value) ==
    LET o == Deref(h, obj) IN
    IF ~(o.t = "obj" /\ key = "id") /\ o.t \notin {"rec", "dict"}
    THEN [err |-> "ValueError: no attribute or item", v |-> FALSE]
    ELSE IF o.t \in {"rec", "dict"} /\ ~(o.t = "rec" /\ key = "id")
    THEN [err |-> "KeyError", v |-> FALSE]
    ELSE IF operation = "None" THEN [err |-> "", v |-> Truthy(h, IntV(o.id))]
    ELSE Compare(h, IF operation \in _OPERATOR_MAPPING THEN operation ELSE "==",
                 IntV(o.id), value)

_where(h, obj, key, operation, value) ==
    LET o == Deref(h, obj) IN
    IF ~(o.t = "obj" /\ key = "id") /\ o.t \notin {"rec", "dict"}
    THEN [err |-> "ValueError: no attribute or item", v |-> FALSE]
    ELSE IF o.t \in {"rec", "dict"} /\ ~(o.t = "rec" /\ key = "id")
    THEN [err |-> "KeyError", v |-> FALSE]
    ELSE IF operation = "None" THEN [err |-> "", v |-> Truthy(h, IntV(o.id))]
    ELSE IF operation \notin _OPERATOR_MAPPING
    THEN [err |-> "ValueError: Invalid operator", v |-> FALSE]
    ELSE Compare(h, operation, IntV(o.id), value)

(***************************************************************************)
(* Box._new and the lazy iterables handed to it.  A lazy iterable is given *)
(* as the pass [ys, err, h] that drawing it makes: on an exception ys is   *)
(* what was yielded before it.                                             *)
(***************************************************************************)
Outcome(ret, h, bs) == [ret |-> ret, h |-> h, bs |-> bs]

\* a variant of _new that refills the receiver's container and returns the receiver
_new_in_place(h, bs, b, items) ==
    LET kind == item_type(h, bs[b])
        c == Construct(items.h, kind, items.ys)
    IN IF ~Draws(kind) THEN Outcome(Err("TypeError"), h, bs)
       ELSE IF c.err # "" THEN Outcome(Err(c.err), items.h, bs)
       ELSE IF items.err # "" THEN Outcome(Err(items.err), items.h, bs)
       ELSE Outcome(BoxRef(b), [c.h EXCEPT ![bs[b]._items.a] = c.h[c.v.a]], bs)

_new(h, bs, b, items) ==
    LET kind == item_type(h, bs[b])
        c == Construct(items.h, kind, items.ys)
        made(v, h2) == LET i == Instantiate(h2, bs, bs[b].cls, v)
                       IN Outcome(BoxRef(i.b), i.h, i.bs)
    IN \* str(generator) is the generator's repr: nothing is drawn
       IF kind = "str" THEN made(GenRepr, h)
       \* a type that takes no iterable raises before anything is drawn
       ELSE IF ~Draws(kind) THEN Outcome(Err("TypeError"), h, bs)
       ELSE IF c.err # "" THEN Outcome(Err(c.err), items.h, bs)
       ELSE IF items.err # "" THEN Outcome(Err(items.err), items.h, bs)
       ELSE made(c.v, c.h)

\* (callback(value) for value in self)
MapItems(h, bs, b, callback) ==
    LET p == Box__iter__(h, bs, b, 0, TRUE)
    IN [ys |-> [i \in 1..Len(p.ys) |-> Apply1(callback, p.ys[i])], err |-> p.err, h |-> p.h]

map(h, bs, b, callback) == _new(h, bs, b, MapItems(h, bs, b, callback))

\* callback(value) inside filter, for the caller's callback or the lambda where passes:
\* [err, v]
Passes(h, test, x) ==
    IF test.by = "callback" THEN [err |-> "", v |-> Test1(h, test.callback, x)]
    ELSE _where(h, x, test.key, test.operation, test.value)

\* the elements of xs that pass test, up to the first one whose test raises: [ys, err]
RECURSIVE Keep(_, _, _, _)
Keep(h, xs, test, acc) ==
    IF xs = <<>> THEN [ys |-> acc, err |-> ""]
    ELSE LET r == Passes(h, test, Head(xs))
         IN IF r.err # "" THEN [ys |-> acc, err |-> r.err]
            ELSE Keep(h, Tail(xs), test, IF r.v THEN Append(acc, Head(xs)) ELSE acc)

FilterItems(h, bs, b, test) ==
    LET p == Box__iter__(h, bs, b, 0, TRUE)
        kept == Keep(h, p.ys, test, <<>>)
    IN [ys |-> kept.ys, err |-> IF kept.err # "" THEN kept.err ELSE p.err, h |-> p.h]

filter(h, bs, b, callback) ==
    _new(h, bs, b, FilterItems(h, bs, b, [by |-> "callback", callback |-> callback]))

\* self.filter(lambda obj: self._where(obj, key, operation, value))
where(h, bs, b, key, operation, value) ==
    _new(h, bs, b, FilterItems(h, bs, b, [by |-> "_where", key |-> key,
                                          operation |-> operation, value |-> value]))

\* (value for value in self if value not in other): other is scanned once per value
RECURSIVE DiffItems(_, _, _, _, _)
DiffItems(h, bs, xs, other, acc) ==
    IF xs = <<>> THEN [ys |-> acc, err |-> "", h |-> h]
    ELSE LET c == ContainsArg(h, bs, Head(xs), other)
         IN IF c.err # "" THEN [ys |-> acc, err |-> c.err, h |-> c.h]
            ELSE DiffItems(c.h, bs, Tail(xs), other,
                           IF c.v THEN acc ELSE Append(acc, Head(xs)))

diff(h, bs, b, other) ==
    LET p == Box__iter__(h, bs, b, 0, TRUE)
    IN _new(h, bs, b, IF p.err # "" THEN p ELSE DiffItems(p.h, bs, p.ys, other, <<>>))

\* yield from self; yield from other
MergeItems(h, bs, b, other) ==
    LET p == Box__iter__(h, bs, b, 0, TRUE)
        q == IterArg(p.h, bs, other, 0, TRUE)
    IN IF p.err # "" THEN p ELSE [ys |-> p.ys \o q.ys, err |-> q.err, h |-> q.h]

merge(h, bs, b, other) == _new(h, bs, b, MergeItems(h, bs, b, other))

\* zip(self, other): self is asked first, so other gives up at most len(self) elements
ZipItems(h, bs, b, other) ==
    LET p == Box__iter__(h, bs, b, 0, TRUE)
        q == IterArg(p.h, bs, other, Len(p.ys), FALSE)
        n == IF Len(p.ys) < Len(q.ys) THEN Len(p.ys) ELSE Len(q.ys)
    IN IF p.err # "" THEN p
       ELSE [ys |-> [i \in 1..n |-> Val("tuple", <<p.ys[i], q.ys[i]>>)], err |-> q.err, h |-> q.h]

zip(h, bs, b, other) == _new(h, bs, b, ZipItems(h, bs, b, other))

\* Box.chunk: a box of the same class around the generator, which has not run yet
Box_chunk(h, bs, b, chunk_size) ==
    LET g == [t |-> "generator", src |-> b, chunk_size |-> chunk_size, done |-> FALSE]
        i == Instantiate(Append(h, g), bs, bs[b].cls, Ref(Len(h) + 1))
    IN Outcome(BoxRef(i.b), i.h, i.bs)

\* self[i: i + chunk_size] on the sequence o
Slice(o, i, chunk_size) ==
    IF o.t = "str" THEN Str(SubSeq(o.s, i + 1, IF i + chunk_size < Len(o.s) THEN i + chunk_size ELSE Len(o.s)))
    ELSE Val(o.t, SubSeq(o.es, i + 1, IF i + chunk_size < Len(o.es) THEN i + chunk_size ELSE Len(o.es)))

\* a variant of SequenceBox.chunk that keeps the complete chunks only
SequenceBox_chunk_complete(h, bs, b, chunk_size) ==
    LET n == SizedBox__len__(h, bs[b])
        o == Deref(h, bs[b].items)
        slices == [j \in 1..(n.n \div chunk_size) |-> Slice(o, (j - 1) * chunk_size, chunk_size)]
    IN IF n.err # "" THEN Outcome(Err(n.err), h, bs)
       ELSE _new(h, bs, b, [ys |-> slices, err |-> "", h |-> h])

\* SequenceBox.chunk: range(0, len(self), chunk_size) is evaluated at once
SequenceBox_chunk(h, bs, b, chunk_size) ==
    LET n == SizedBox__len__(h, bs[b])
        starts == {i \in 0..(n.n - 1) : i % chunk_size = 0}
        o == Deref(h, bs[b].items)
        slices == [j \in 1..Cardinality(starts) |-> Slice(o, (j - 1) * chunk_size, chunk_size)]
    IN IF n.err # "" THEN Outcome(Err(n.err), h, bs)
       ELSE IF chunk_size = 0 THEN Outcome(Err("ValueError"), h, bs)
       ELSE _new(h, bs, b, [ys |-> slices, err |-> "", h |-> h])

chunk(h, bs, b, chunk_size) ==
    IF bs[b].cls = "SequenceBox" THEN SequenceBox_chunk(h, bs, b, chunk_size)
    ELSE Box_chunk(h, bs, b, chunk_size)

\* reversed(self) is abc.Sequence.__reversed__: self[i] for i from len(self) - 1 down to 0
ReversedItems(h, bs, b) ==
    LET n == SizedBox__len__(h, bs[b])
        es == Elems(Deref(h, bs[b].items))
    IN IF n.err # "" THEN [ys |-> <<>>, err |-> n.err, h |-> h]
       ELSE IF n.n > Len(es) THEN [ys |-> <<>>, err |-> "IndexError", h |-> h]
       ELSE [ys |-> [i \in 1..n.n |-> es[n.n + 1 - i]], err |-> "", h |-> h]

reverse(h, bs, b) == _new(h, bs, b, ReversedItems(h, bs, b))

\* each: the callback has no effect on the model's state
each(h, bs, b) ==
    LET p == Box__iter__(h, bs, b, 0, TRUE)
    IN Outcome(IF p.err # "" THEN Err(p.err) ELSE BoxRef(b), p.h, bs)

first(h, bs, b, or_fail) ==
    LET p == Box__iter__(h, bs, b, 1, FALSE)
    IN Outcome(IF p.err # "" THEN Err(p.err)
               ELSE IF p.ys # <<>> THEN p.ys[1]
               ELSE IF or_fail THEN Err("IndexError") ELSE None, p.h, bs)

first_where(h, bs, b, key, operation, value, or_fail) ==
    LET ahead == Box__iter__(h, bs, b, 0, TRUE)
        w(i) == _where(h, ahead.ys[i], key, operation, value)
        stop == {i \in 1..Len(ahead.ys) : w(i).err # "" \/ w(i).v}
        m == IF stop = {} THEN 0 ELSE CHOOSE i \in stop : \A j \in stop : i <= j
        p == IF m = 0 THEN ahead ELSE Box__iter__(h, bs, b, m, FALSE)
    IN Outcome(IF p.err # "" THEN Err(p.err)
               ELSE IF m # 0 THEN (IF w(m).err # "" THEN Err(w(m).err) ELSE p.ys[m])
               ELSE IF or_fail THEN Err("IndexError") ELSE None, p.h, bs)

\* the loop of Box.reduce over xs: [err, v, n], n the number of elements drawn
RECURSIVE reduce_loop(_, _, _, _, _, _)
reduce_loop(h, callback, xs, result, is_first_iteration, n) ==
    IF xs = <<>> THEN [err |-> "", v |-> result, n |-> n]
    ELSE IF is_first_iteration /\ result.t = "none"
    THEN reduce_loop(h, callback, Tail(xs), Head(xs), FALSE, n + 1)
    ELSE LET r == Apply2(h, callback, result, Head(xs))
         IN IF r.err # "" THEN [err |-> r.err, v |-> None, n |-> n + 1]
            ELSE reduce_loop(h, callback, Tail(xs), r.v, is_first_iteration, n + 1)

\* [err, v, h]
reduce(h, bs, b, callback, initial_value) ==
    LET ahead == Box__iter__(h, bs, b, 0, TRUE)
        r == reduce_loop(h, callback, ahead.ys, initial_value, TRUE, 0)
        p == IF r.err = "" THEN ahead ELSE Box__iter__(h, bs, b, r.n, FALSE)
    IN IF ahead.err # "" THEN [err |-> ahead.err, v |-> None, h |-> ahead.h]
       ELSE [err |-> r.err, v |-> r.v, h |-> p.h]

sum(h, bs, b) == reduce(h, bs, b, "add", None)

\* SizedBox.average: [err, v, h]
average(h, bs, b) ==
    LET s == sum(h, bs, b)
        n == SizedBox__len__(s.h, bs[b])
    IN IF ~Box__bool__(h, bs[b]) THEN [err |-> "ZeroDivisionError", v |-> None, h |-> h]
       ELSE IF s.err # "" THEN s
       ELSE IF s.v.t # "int" THEN [err |-> "AssertionError", v |-> None, h |-> s.h]
       ELSE IF n.err # "" THEN [err |-> n.err, v |-> None, h |-> s.h]
       ELSE IF n.n = 0 THEN [err |-> "ZeroDivisionError", v |-> None, h |-> s.h]
       ELSE [err |-> "", v |-> Ratio(s.v.n, n.n), h |-> s.h]

(***************************************************************************)
(* In-place mutation (MutableSetBox, MutableMappingBox) and item access.   *)
(* Each is [err, v, h].                                                    *)
(***************************************************************************)
Without(es, i) == SubSeq(es, 1, i - 1) \o SubSeq(es, i + 1, Len(es))
IndexOf(h, es, x) == CHOOSE i \in 1..Len(es) : PyEq(h, es[i], x)

\* self._items.add(value)
add(h, bs, b, value) ==
    LET o == Deref(h, bs[b]._items) IN
    IF o.t # "set" THEN [err |-> "AttributeError", v |-> None, h |-> h]
    ELSE IF ~Hashable(h, value) THEN [err |-> "TypeError", v |-> None, h |-> h]
    ELSE [err |-> "", v |-> None,
          h |-> IF Member(h, value, o) THEN h
                ELSE [h EXCEPT ![bs[b]._items.a].es = Append(o.es, value)]]

\* a variant of discard behaving as set.remove: an absent value is a KeyError
discard_as_remove(h, bs, b, value) ==
    LET o == Deref(h, bs[b]._items) IN
    IF o.t # "set" THEN [err |-> "AttributeError", v |-> None, h |-> h]
    ELSE IF ~Hashable(h, value) THEN [err |-> "TypeError", v |-> None, h |-> h]
    ELSE IF ~Member(h, value, o) THEN [err |-> "KeyError", v |-> None, h |-> h]
    ELSE [err |-> "", v |-> None,
          h |-> [h EXCEPT ![bs[b]._items.a].es = Without(o.es, IndexOf(h, o.es, value))]]

\* self._items.discard(value)
discard(h, bs, b, value) ==
    LET o == Deref(h, bs[b]._items) IN
    IF o.t # "set" THEN [err |-> "AttributeError", v |-> None, h |-> h]
    ELSE IF ~Hashable(h, value) THEN [err |-> "TypeError", v |-> None, h |-> h]
    ELSE [err |-> "", v |-> None,
          h |-> IF Member(h, value, o)
                THEN [h EXCEPT ![bs[b]._items.a].es = Without(o.es, IndexOf(h, o.es, value))]
                ELSE h]

\* self._items[key] = value
MutableMappingBox__setitem__(h, bs, b, key, value) ==
    LET o == Deref(h, bs[b]._items) IN
    IF o.t # "dict" \/ ~Hashable(h, key) THEN [err |-> "TypeError", v |-> None, h |-> h]
    ELSE [err |-> "", v |-> None,
          h |-> IF Member(h, key, o)
                THEN [h EXCEPT ![bs[b]._items.a].vs[IndexOf(h, o.es, key)] = value]
                ELSE [h EXCEPT ![bs[b]._items.a].es = Append(o.es, key),
                               ![bs[b]._items.a].vs = Append(o.vs, value)]]

\* del self._items[key]
MutableMappingBox__delitem__(h, bs, b, key) ==
    LET o == Deref(h, bs[b]._items) IN
    IF o.t # "dict" \/ ~Hashable(h, key) THEN [err |-> "TypeError", v |-> None, h |-> h]
    ELSE IF ~Member(h, key, o) THEN [err |-> "KeyError", v |-> None, h |-> h]
    ELSE [err |-> "", v |-> None,
          h |-> [h EXCEPT ![bs[b]._items.a].es = Without(o.es, IndexOf(h, o.es, key)),
                          ![bs[b]._items.a].vs = Without(o.vs, IndexOf(h, o.es, key))]]

\* MappingBox.__getitem__: self._items[key]
MappingBox__getitem__(h, bs, b, key) ==
    LET o == Deref(h, bs[b]._items) IN
    IF o.t # "dict" \/ ~Hashable(h, key) THEN [err |-> "TypeError", v |-> None, h |-> h]
    ELSE IF ~Member(h, key, o) THEN [err |-> "KeyError", v |-> None, h |-> h]
    ELSE [err |-> "", v |-> o.vs[IndexOf(h, o.es, key)], h |-> h]

\* SequenceBox.__getitem__: self.items[index], index >= 0
SequenceBox__getitem__(h, bs, b, index) ==
    LET es == Elems(Deref(h, bs[b].items)) IN
    IF index + 1 > Len(es) THEN [err |-> "IndexError", v |-> None, h |-> h]
    ELSE [err |-> "", v |-> es[index + 1], h |-> h]

(***************************************************************************)
(* The state machine: the caller owns some containers, wraps them in boxes *)
(* and calls the boxes' methods.                                           *)
(***************************************************************************)
SizedClasses == Classes \ {"Box"}
MappingClasses == {"MappingBox", "MutableMappingBox"}

FromValue(r, bs) == Outcome(IF r.err # "" THEN Err(r.err) ELSE r.v, r.h, bs)

\* the state after a call, and the record of it
Returns(op, b, args, out) ==
    /\ heap' = out.h
    /\ boxes' = out.bs
    /\ last' = [op |-> op, b |-> b, args |-> args, ret |-> out.ret]
    /\ steps' = steps + 1

\* an argument the caller builds for the call: a fresh container or one-pass iterator
\* o = [kind, es, wrap], passed raw or wrapped in a box of class o.wrap
MakeArg(h, bs, o) ==
    LET obj == IF o.kind = "list_iterator" THEN [t |-> "list_iterator", es |-> o.es]
               ELSE Val(o.kind, o.es)
        h1 == Append(h, obj)
        i == Instantiate(h1, bs, o.wrap, Ref(Len(h) + 1))
    IN IF o.wrap = "raw" THEN [v |-> Ref(Len(h) + 1), h |-> h1, bs |-> bs]
       ELSE [v |-> BoxRef(i.b), h |-> i.h, bs |-> i.bs]

\* cls(v): the caller wraps a value
NewBox(cls, v) ==
    LET i == Instantiate(heap, boxes, cls, v) IN
    /\ heap' = i.h
    /\ boxes' = i.bs
    /\ last' = [op |-> "__init__", b |-> i.b, args |-> [items |-> v], ret |-> BoxRef(i.b)]
    /\ UNCHANGED steps

Map(b, callback) ==
    Returns("map", b, [callback |-> callback], map(heap, boxes, b, callback))

Filter(b, callback) ==
    Returns("filter", b, [callback |-> callback], filter(heap, boxes, b, callback))

Where(b, key, operation, value) ==
    Returns("where", b, [key |-> key, operation |-> operation, value |-> value],
            where(heap, boxes, b, key, operation, value))

FirstWhere(b, key, operation, value, or_fail) ==
    Returns("first_where", b,
            [key |-> key, operation |-> operation, value |-> value, or_fail |-> or_fail],
            first_where(heap, boxes, b, key, operation, value, or_fail))

Diff(b, o) ==
    LET arg == MakeArg(heap, boxes, o)
    IN Returns("diff", b, [other |-> o, arg |-> arg.v], diff(arg.h, arg.bs, b, arg.v))

Merge(b, o) ==
    LET arg == MakeArg(heap, boxes, o)
    IN Returns("merge", b, [other |-> o, arg |-> arg.v], merge(arg.h, arg.bs, b, arg.v))

Zip(b, o) ==
    LET arg == MakeArg(heap, boxes, o)
    IN Returns("zip", b, [other |-> o, arg |-> arg.v], zip(arg.h, arg.bs, b, arg.v))

Chunk(b, chunk_size) ==
    Returns("chunk", b, [chunk_size |-> chunk_size], chunk(heap, boxes, b, chunk_size))

Reverse(b) ==
    /\ boxes[b].cls = "SequenceBox"
    /\ Returns("reverse", b, << >>, reverse(heap, boxes, b))

Each(b) == Returns("each", b, << >>, each(heap, boxes, b))

First(b, or_fail) ==
    Returns("first", b, [or_fail |-> or_fail], first(heap, boxes, b, or_fail))

Reduce(b, callback, initial_value) ==
    Returns("reduce", b, [callback |-> callback, initial_value |-> initial_value],
            FromValue(reduce(heap, boxes, b, callback, initial_value), boxes))

Sum(b) == Returns("sum", b, << >>, FromValue(sum(heap, boxes, b), boxes))

Average(b) ==
    /\ boxes[b].cls \in SizedClasses
    /\ Returns("average", b, << >>, FromValue(average(heap, boxes, b), boxes))

SetAdd(b, value) ==
    /\ boxes[b].cls = "MutableSetBox"
    /\ Returns("add", b, [value |-> value], FromValue(add(heap, boxes, b, value), boxes))

SetDiscard(b, value) ==
    /\ boxes[b].cls = "MutableSetBox"
    /\ Returns("discard", b, [value |-> value], FromValue(discard(heap, boxes, b, value), boxes))

SetItem(b, key, value) ==
    /\ boxes[b].cls = "MutableMappingBox"
    /\ Returns("__setitem__", b, [key |-> key, value |-> value],
               FromValue(MutableMappingBox__setitem__(heap, boxes, b, key, value), boxes))

DelItem(b, key) ==
    /\ boxes[b].cls = "MutableMappingBox"
    /\ Returns("__delitem__", b, [key |-> key],
               FromValue(MutableMappingBox__delitem__(heap, boxes, b, key), boxes))

\* list(box): one complete pass of iter(box)
Iterate(b) ==
    LET p == Box__iter__(heap, boxes, b, 0, TRUE)
    IN Returns("__iter__", b, << >>,
               Outcome(IF p.err # "" THEN Err(p.err) ELSE Val("list", p.ys), p.h, boxes))

\* len(box)
Length(b) ==
    LET n == SizedBox__len__(heap, boxes[b]) IN
    /\ boxes[b].cls \in SizedClasses
    /\ Returns("__len__", b, << >>,
               Outcome(IF n.err # "" THEN Err(n.err) ELSE IntV(n.n), heap, boxes))

\* x in box
Contains(b, x) ==
    LET c == Box__contains__(heap, boxes, b, x)
    IN Returns("__contains__", b, [obj |-> x],
               Outcome(IF c.err # "" THEN Err(c.err) ELSE Bool(c.v), c.h, boxes))

\* box[index] on a SequenceBox, box[key] on a mapping box
GetItem(b, index) ==
    /\ boxes[b].cls \in MappingClasses \cup {"SequenceBox"}
    /\ Returns("__getitem__", b, [index |-> index],
               FromValue(IF boxes[b].cls = "SequenceBox"
                         THEN SequenceBox__getitem__(heap, boxes, b, index.n)
                         ELSE MappingBox__getitem__(heap, boxes, b, index), boxes))

ItemType(b) ==
    Returns("item_type", b, << >>, Outcome(Type(item_type(heap, boxes[b])), heap, boxes))

Truth(b) ==
    Returns("__bool__", b, << >>, Outcome(Bool(Box__bool__(heap, boxes[b])), heap, boxes))

(***************************************************************************)
(* What the caller passes in.                                              *)
(***************************************************************************)
Ints == {IntV(n) : n \in 0..MaxVal}
Records == {Rec(1), Obj(2), IntV(0)}
IntSeqs == SeqsOf(Ints, MaxLen)
DistinctIntSeqs == {s \in IntSeqs : Distinct(s)}

Lists == {Val("list", s) : s \in IntSeqs \cup SeqsOf(Records, MaxLen)}
Tuples == {Val("tuple", s) : s \in IntSeqs}
Sets == {Val("set", s) : s \in DistinctIntSeqs}
Dicts == {[t |-> "dict", es |-> s, vs |-> [i \in 1..Len(s) |-> IntV(i)]] : s \in DistinctIntSeqs}
Iterators == {[t |-> "list_iterator", es |-> s] : s \in DistinctIntSeqs \cup {<<IntV(1), IntV(2)>>}}
Scalars == {IntV(1), None, Str(<< >>), Str(<<"a">>), Str(<<"a", "b">>)}

Inputs == Lists \cup Tuples \cup Sets \cup Dicts \cup Iterators \cup Scalars

\* the classes the caller wraps a value of each kind in
ClassesFor(x) ==
    CASE x.t = "list" -> {"Box", "SequenceBox"}
      [] x.t = "tuple" -> {"Box", "SequenceBox"}
      [] x.t = "set" -> {"Box", "SequenceBox", "MutableSetBox"}
      [] x.t = "dict" -> {"Box", "SequenceBox", "MappingBox", "MutableMappingBox"}
      [] x.t = "list_iterator" -> {"Box"}
      [] OTHER -> {"SequenceBox"}

OnHeap(x) == x.t \in {"list", "tuple", "set", "dict", "list_iterator"}

\* cls(x) for a value x the caller has just built
Wrap(cls, x) ==
    /\ cls \in ClassesFor(x)
    /\ IF OnHeap(x)
       THEN LET i == Instantiate(Append(heap, x), boxes, cls, Ref(Len(heap) + 1)) IN
            /\ heap' = i.h
            /\ boxes' = i.bs
            /\ last' = [op |-> "__init__", b |-> i.b, args |-> [items |-> x], ret |-> BoxRef(i.b)]
            /\ UNCHANGED steps
       ELSE NewBox(cls, x)

\* the arguments of diff, merge and zip
OtherSeqs == SeqsOf({IntV(1), IntV(2)}, 2)
Others ==
    {[kind |-> k, es |-> s, wrap |-> w] :
        k \in {"list", "set", "list_iterator"},
        s \in {q \in OtherSeqs : Distinct(q)},
        w \in {"raw", "Box", "SequenceBox"}}
Operations == _OPERATOR_MAPPING \cup {"None", "~", "=<"}

Init ==
    /\ heap = << >>
    /\ boxes = << >>
    /\ last = [op |-> "none"]
    /\ steps = 0

(***************************************************************************)
(* SpecCall: one box over any input, and one call on it with any argument. *)
(***************************************************************************)
CallReady == steps = 0 /\ Len(boxes) = 1

NextCall ==
    \/ \E x \in Inputs, cls \in Classes : boxes = << >> /\ Wrap(cls, x)
    \/ \E cb \in MapCallbacks : CallReady /\ Map(1, cb)
    \/ \E cb \in FilterCallbacks \cup {"None"} : CallReady /\ Filter(1, cb)
    \/ \E k \in Keys, op \in Operations : CallReady /\ Where(1, k, op, IntV(1))
    \/ \E k \in Keys, op \in Operations, f \in BOOLEAN :
          CallReady /\ FirstWhere(1, k, op, IntV(1), f)
    \/ \E o \in Others : CallReady /\ Diff(1, o)
    \/ \E o \in {q \in Others : q.wrap = "raw"} : CallReady /\ Merge(1, o)
    \/ \E o \in {q \in Others : q.wrap = "raw"} : CallReady /\ Zip(1, o)
    \/ \E n \in 1..MaxChunk : CallReady /\ Chunk(1, n)
    \/ CallReady /\ Reverse(1)
    \/ CallReady /\ Each(1)
    \/ \E f \in BOOLEAN : CallReady /\ First(1, f)
    \/ \E cb \in ReduceCallbacks, v \in {None, IntV(1)} : CallReady /\ Reduce(1, cb, v)
    \/ CallReady /\ Sum(1)
    \/ CallReady /\ Average(1)
    \/ \E v \in Ints : CallReady /\ SetAdd(1, v)
    \/ \E v \in Ints : CallReady /\ SetDiscard(1, v)
    \/ \E k \in Ints : CallReady /\ SetItem(1, k, IntV(0))
    \/ \E k \in Ints : CallReady /\ DelItem(1, k)
    \/ CallReady /\ Iterate(1)
    \/ CallReady /\ Length(1)
    \/ \E v \in Ints : CallReady /\ Contains(1, v)
    \/ \E v \in Ints : CallReady /\ GetItem(1, v)
    \/ CallReady /\ ItemType(1)
    \/ CallReady /\ Truth(1)

SpecCall == Init /\ [][NextCall]_vars

(***************************************************************************)
(* Spec: a session.  The caller wraps one small container, possibly in two *)
(* boxes, and makes up to MaxOps calls on any box it holds, the boxes the  *)
(* calls returned included.                                                *)
(***************************************************************************)
SessionSeqs == {<< >>, <<IntV(1)>>, <<IntV(1), IntV(2)>>}
SessionInputs ==
    {Val(k, s) : k \in {"list", "tuple", "set"}, s \in SessionSeqs}
        \cup {[t |-> "dict", es |-> s, vs |-> [i \in 1..Len(s) |-> IntV(i)]] : s \in SessionSeqs}
        \cup {[t |-> "list_iterator", es |-> s] : s \in SessionSeqs}
SessionClasses == {"Box", "SequenceBox", "MutableSetBox", "MutableMappingBox"}
SessionValues == {IntV(1), IntV(3)}
SessionOther == [kind |-> "list", es |-> <<IntV(1)>>, wrap |-> "raw"]

\* a second box of the same class over the container box 1 wraps
Alias ==
    /\ Len(boxes) = 1
    /\ steps = 0
    /\ boxes[1].cls \in {"MutableSetBox", "MutableMappingBox"}
    /\ NewBox(boxes[1].cls, boxes[1]._items)

Live == 1..Len(boxes)
Ready == steps < MaxOps

Next ==
    \/ \E x \in SessionInputs, cls \in SessionClasses : boxes = << >> /\ Wrap(cls, x)
    \/ Alias
    \/ \E b \in Live : Ready /\ Map(b, "identity")
    \/ \E b \in Live : Ready /\ Filter(b, "None")
    \/ \E b \in Live : Ready /\ Where(b, "id", "==", IntV(1))
    \/ \E b \in Live : Ready /\ FirstWhere(b, "id", "==", IntV(1), FALSE)
    \/ \E b \in Live : Ready /\ Diff(b, SessionOther)
    \/ \E b \in Live : Ready /\ Merge(b, SessionOther)
    \/ \E b \in Live : Ready /\ Zip(b, SessionOther)
    \/ \E b \in Live, n \in 1..MaxChunk : Ready /\ Chunk(b, n)
    \/ \E b \in Live : Ready /\ Reverse(b)
    \/ \E b \in Live : Ready /\ Each(b)
    \/ \E b \in Live : Ready /\ First(b, FALSE)
    \/ \E b \in Live : Ready /\ Reduce(b, "add", None)
    \/ \E b \in Live : Ready /\ Sum(b)
    \/ \E b \in Live : Ready /\ Average(b)
    \/ \E b \in Live, v \in SessionValues : Ready /\ SetAdd(b, v)
    \/ \E b \in Live, v \in SessionValues : Ready /\ SetDiscard(b, v)
    \/ \E b \in Live, k \in SessionValues : Ready /\ SetItem(b, k, IntV(0))
    \/ \E b \in Live, k \in SessionValues : Ready /\ DelItem(b, k)
    \/ \E b \in Live : Ready /\ Iterate(b)

Spec == Init /\ [][Next]_vars

(***************************************************************************)
(* SpecPasses: a box, wrapped by the caller or returned by one call on the *)
(* box the caller wrapped, is iterated completely up to MaxPasses times.   *)
(***************************************************************************)
Fresh == steps = 0 /\ Len(boxes) = 1
PassReady == boxes # << >> /\ steps <= MaxPasses

NextPasses ==
    \/ \E x \in Inputs, cls \in Classes : boxes = << >> /\ Wrap(cls, x)
    \/ \E cb \in MapCallbacks : Fresh /\ Map(1, cb)
    \/ Fresh /\ Filter(1, "None")
    \/ Fresh /\ Where(1, "id", "==", IntV(1))
    \/ Fresh /\ Diff(1, SessionOther)
    \/ Fresh /\ Merge(1, SessionOther)
    \/ Fresh /\ Zip(1, SessionOther)
    \/ \E n \in 1..MaxChunk : Fresh /\ Chunk(1, n)
    \/ Fresh /\ Reverse(1)
    \/ \E b \in Live : PassReady /\ Iterate(b)

SpecPasses == Init /\ [][NextPasses]_vars

(***************************************************************************)
(* The properties.  A call is read off `last`: the receiver is             *)
(* boxes[last.b], the outcome last.ret.                                    *)
(***************************************************************************)
Containers == {"list", "tuple", "set", "dict"}

\* the box wraps a container as such: a SequenceBox over a set or a dict holds it as
\* its single element instead
WrapsContainer(h, box) ==
    /\ Kind(h, box._items) \in Containers
    /\ box.cls = "SequenceBox" => IsSequence(h, box._items)

\* C1: for every box over a list, tuple, set or mapping, map with the identity returns
\* a new box of the receiver's class whose container is of the receiver's container kind
C1_TypePreservation ==
    (last.op = "map" /\ last.args.callback = "identity" /\ WrapsContainer(heap, boxes[last.b]))
    => /\ last.ret.t = "box"
       /\ last.ret.b # last.b
       /\ boxes[last.ret.b].cls = boxes[last.b].cls
       /\ item_type(heap, boxes[last.ret.b]) = item_type(heap, boxes[last.b])

\* the floor(k / n) complete groups of n consecutive elements of xs, as fresh lists
ExactGroups(xs, n) ==
    [j \in 1..(Len(xs) \div n) |-> Val("list", SubSeq(xs, (j - 1) * n + 1, j * n))]

\* C2: the first pass over the box that the generic chunk(n) returned for a source of k
\* elements yields exactly floor(k / n) groups, each of n consecutive elements in the
\* original order, and drops a trailing partial group
C2_GenericChunk ==
    [][(/\ last'.op = "__iter__"
        /\ Kind(heap, boxes[last'.b]._items) = "generator"
        /\ ~Deref(heap, boxes[last'.b]._items).done
        /\ WrapsContainer(heap, boxes[Deref(heap, boxes[last'.b]._items).src]))
       => LET g == Deref(heap, boxes[last'.b]._items)
              xs == Box__iter__(heap, boxes, g.src, 0, TRUE).ys
          IN last'.ret = Val("list", ExactGroups(xs, g.chunk_size))]_vars

\* the concatenation of the groups gs
RECURSIVE Flatten(_)
Flatten(gs) == IF gs = << >> THEN << >> ELSE Head(gs).es \o Flatten(Tail(gs))

\* C3: chunk(n) on a SequenceBox over a list or tuple xs returns a box of
\* ceil(len(xs) / n) groups; every group but the last has exactly n elements, the last
\* between 1 and n; each group is of the kind of xs; the groups concatenate to xs
C3_SequenceChunk ==
    (/\ last.op = "chunk"
     /\ boxes[last.b].cls = "SequenceBox"
     /\ Kind(heap, boxes[last.b]._items) \in {"list", "tuple"})
    => LET xs == Deref(heap, boxes[last.b]._items)
           n == last.args.chunk_size
       IN /\ last.ret.t = "box"
          /\ boxes[last.ret.b].cls = "SequenceBox"
          /\ LET gs == Box__iter__(heap, boxes, last.ret.b, 0, TRUE).ys
             IN /\ Len(gs) = (Len(xs.es) + n - 1) \div n
                /\ \A j \in 1..Len(gs) :
                      /\ gs[j].t = xs.t
                      /\ Len(gs[j].es) \in 1..n
                      /\ j < Len(gs) => Len(gs[j].es) = n
                /\ Flatten(gs) = xs.es

\* a tuple of three elements was chunked by two: a full group and a partial one
C3_Witness ==
    /\ last.op = "chunk"
    /\ boxes[last.b].cls = "SequenceBox"
    /\ Kind(heap, boxes[last.b]._items) = "tuple"
    /\ Len(Deref(heap, boxes[last.b]._items).es) = 3
    /\ last.args.chunk_size = 2
    /\ last.ret.t = "box"
    /\ Len(Deref(heap, boxes[last.ret.b].items).es) = 2

\* the fold of callback over xs from the accumulator acc, every element passed to the
\* callback: [err, v]
RECURSIVE Fold(_, _, _, _)
Fold(h, callback, acc, xs) ==
    IF xs = << >> THEN [err |-> "", v |-> acc]
    ELSE LET r == Apply2(h, callback, acc, Head(xs))
         IN IF r.err # "" THEN [err |-> r.err, v |-> None]
            ELSE Fold(h, callback, r.v, Tail(xs))

\* C4: reduce takes the first element as the accumulator, without calling the callback,
\* only on the first iteration and only when no initial value was given; from then on
\* every element goes through the callback, also when the accumulator has become None;
\* an empty box without an initial value gives None
C4_ReduceSeeding ==
    (last.op = "reduce" /\ WrapsContainer(heap, boxes[last.b]))
    => LET xs == Box__iter__(heap, boxes, last.b, 0, TRUE).ys
           init == last.args.initial_value
           r == IF init = None /\ xs # << >>
                THEN Fold(heap, last.args.callback, Head(xs), Tail(xs))
                ELSE Fold(heap, last.args.callback, init, xs)
       IN last.ret = IF r.err # "" THEN Err(r.err) ELSE r.v

\* C5: SequenceBox(s) for a string s is a box over the one-element list [s]
C5_StringIsScalar ==
    (last.op = "__init__" /\ boxes[last.b].cls = "SequenceBox" /\ last.args.items.t = "str")
    => LET box == boxes[last.b]
       IN /\ Kind(heap, box.items) = "list"
          /\ Deref(heap, box.items).es = <<last.args.items>>
          /\ SizedBox__len__(heap, box) = [err |-> "", n |-> 1]

\* C6: SequenceBox(v) for a v that is no sequence (a scalar, a set, a mapping) behaves
\* as the one-element sequence [v]: length 1, iteration yields v once, position 0 is v,
\* and the item type is that of the same one-element list
C6_NonSequenceWrapped ==
    (last.op = "__init__" /\ boxes[last.b].cls = "SequenceBox"
        /\ ~IsSequence(heap, boxes[last.b]._items))
    => LET box == boxes[last.b]
           v == box._items
       IN /\ SizedBox__len__(heap, box) = [err |-> "", n |-> 1]
          /\ Box__iter__(heap, boxes, last.b, 0, TRUE).ys = <<v>>
          /\ SequenceBox__getitem__(heap, boxes, last.b, 0).v = v
          /\ item_type(heap, box) = "list"

Transforms == {"map", "filter", "where", "diff", "zip", "merge", "reverse", "chunk"}
Mutators == {"add", "discard", "__setitem__", "__delitem__"}

\* C7: the contents of a container change only in a call of add, discard, item
\* assignment or item deletion on a box that wraps that container; a transform returns a
\* new box over a container that did not exist before the call, so that no later call on
\* the returned box changes the container of the box the transform was called on
C7_CopyOnTransform ==
    [][/\ \A a \in 1..Len(heap) :
             (heap[a].t \in Containers /\ heap'[a] # heap[a])
             => (last'.op \in Mutators /\ boxes[last'.b]._items = Ref(a))
       /\ (last'.op \in Transforms /\ last'.ret.t = "box")
          => /\ last'.ret.b > Len(boxes)
             /\ LET r == boxes'[last'.ret.b]
                IN /\ r._items.t = "ref" => r._items.a > Len(heap)
                   /\ r.items.t = "ref" => r.items.a > Len(heap)]_vars

\* a value the source set lacks was added to the box that a transform returned for it
C7_Witness ==
    /\ Len(boxes) = 2
    /\ last.op = "add"
    /\ last.b = 2
    /\ last.ret = None
    /\ Kind(heap, boxes[1]._items) = "set"
    /\ boxes[1]._items # boxes[2]._items
    /\ Member(heap, last.args.value, Deref(heap, boxes[2]._items))
    /\ ~Member(heap, last.args.value, Deref(heap, boxes[1]._items))

InvalidOperatorError == Err("ValueError: Invalid operator")
Unrecognized(operation) == operation \notin _OPERATOR_MAPPING \cup {"None"}

\* the key names an attribute or an item of obj
Resolves(h, obj, key) ==
    LET o == Deref(h, obj) IN (o.t = "obj" /\ key = "id") \/ (o.t = "rec" /\ key = "id")

C9_Diff ==
    (/\ last.op = "diff"
     /\ WrapsContainer(heap, boxes[last.b])
     /\ Kind(heap, boxes[last.b]._items) # "dict")
    => LET xs == Box__iter__(heap, boxes, last.b, 0, TRUE).ys
           absent(x) == \A i \in 1..Len(last.args.other.es) :
                           ~PyEq(heap, x, last.args.other.es[i])
       IN /\ last.ret.t = "box"
          /\ Box__iter__(heap, boxes, last.ret.b, 0, TRUE).ys = SelectSeq(xs, absent)

\* C10: on a MutableSetBox over a set, add and discard raise nothing and return nothing;
\* after add(x) the box contains x, after discard(x) it does not; membership of every
\* other value is as before; the length changes by one exactly when membership of x
\* changed, and is the number of distinct values held
C10_SetMutation ==
    [][(last'.op \in {"add", "discard"} /\ Kind(heap, boxes[last'.b]._items) = "set")
       => LET b == last'.b
              x == last'.args.value
              was(y) == Box__contains__(heap, boxes, b, y).v
              now(y) == Box__contains__(heap', boxes', b, y).v
              before == SizedBox__len__(heap, boxes[b])
              after == SizedBox__len__(heap', boxes'[b])
              held == Deref(heap', boxes'[b]._items).es
          IN /\ last'.ret = None
             /\ boxes' = boxes
             /\ \A y \in (SessionValues \cup Range(Deref(heap, boxes[b]._items).es)) \ {x} :
                   now(y) <=> was(y)
             /\ last'.op = "add" => now(x)
             /\ last'.op = "discard" => ~now(x)
             /\ after.err = ""
             /\ after.n = before.n + (IF now(x) THEN 1 ELSE 0) - (IF was(x) THEN 1 ELSE 0)
             /\ after.n = Cardinality(Range(held))]_vars

\* the set {1, 2} after add(3) and discard(1)
C10_Witness ==
    /\ steps = 2
    /\ last.op = "discard"
    /\ last.args.value = IntV(1)
    /\ last.ret = None
    /\ Deref(heap, boxes[last.b]._items) = Val("set", <<IntV(2), IntV(3)>>)

\* C11: two successive complete passes over a box, with no other call in between, yield
\* the same sequence of elements; stated here for every box that does not wrap a
\* one-pass iterator of the caller's, the boxes the library returns included
C11_Restartable ==
    [][(/\ last.op = "__iter__"
        /\ last'.op = "__iter__"
        /\ last'.b = last.b
        /\ steps' = steps + 1
        /\ last.ret.t # "err"
        /\ Kind(heap, boxes[last.b]._items) # "list_iterator")
       => last'.ret = last.ret]_vars

====
